---------------------------- MODULE Spec2Model ----------------------------
(***************************************************************************)
(* A model of the build and watch scripts of the LaTeX template           *)
(* repository (scripts/watch.py, scripts/build.py).                        *)
(*                                                                         *)
(* One behaviour is one run of one script, chosen in Init.  A watch run    *)
(* has two threads: "main", which runs main(), and "obs", the observer's   *)
(* dispatch thread, which takes the filesystem events off the observer's   *)
(* queue one at a time and runs on_modified / on_created on each.          *)
(* Each shared read or write of LaTeXHandler is a step of its own.         *)
(*                                                                         *)
(* Time is a clock of ticks.  Python statements take no time; time passes  *)
(* only while every thread is blocked (waiting for an event, sleeping in   *)
(* the main loop, or waiting for the toolchain subprocess).                *)
(***************************************************************************)
EXTENDS Integers, Sequences, FiniteSets, TLC

(* ------------------------------ bounds -------------------------------- *)

\* --debounce, in ticks
debounce_seconds == 2
\* ticks the clock may advance in one run
MaxTicks == 2
\* the subprocess timeout of a watch build, in ticks
TimeoutTicks == 2
\* filesystem events delivered in one run
MaxEvents == 2
\* .tex files lint.py finds
MaxFiles == 2
\* auxiliary files in src/ of the largest tree clean.py is run on
ManyAux == 21

\* time.time() at start-up: any value at least debounce_seconds past 0
Epoch == debounce_seconds
MaxTime == Epoch + MaxTicks

(* ------------------------------- paths -------------------------------- *)

\* A path is [abs, parts]; a part is a file name split at its dots.
Name(s) == <<s>>
MainTex == <<"main", "tex">>
MainAux == <<"main", "aux">>
BlxBib == <<"main-blx", "bib">>
ChapDir == <<"chapters", "tex">>

RelPath(ps) == [abs |-> FALSE, parts |-> ps]
AbsPath(ps) == [abs |-> TRUE, parts |-> ps]

\* Path.cwd()
cwd == AbsPath(<<Name("proj")>>)

\* PurePath.__truediv__ with a relative right operand
Join(p, rel) == [abs |-> p.abs, parts |-> p.parts \o rel]

IsPrefix(s, t) == Len(s) <= Len(t) /\ SubSeq(t, 1, Len(s)) = s

\* Where a path points, seen from the working directory.
Resolve(p) == IF p.abs THEN p.parts ELSE cwd.parts \o p.parts

\* The file or directory p lies in (or is) directory d.
LiesUnder(p, d) == IsPrefix(Resolve(d), Resolve(p))

\* PurePath.suffix without its dot: the text after the last dot of the last
\* part, "" when there is no dot, or only a leading or a trailing one.
suffix(p) ==
    IF p.parts = <<>> THEN ""
    ELSE LET name == p.parts[Len(p.parts)]
             n == Len(name)
         IN  IF n = 1 THEN ""
             ELSE IF name[n] = "" THEN ""
             ELSE IF n = 2 /\ name[1] = "" THEN ""
             ELSE name[n]

\* PurePath.relative_to(other) returns (TRUE) or raises ValueError (FALSE):
\* the comparison is on the two paths as given.
relative_to(path, other) ==
    path.abs = other.abs /\ IsPrefix(other.parts, path.parts)

(* ------------------------------- text --------------------------------- *)

\* A string is a sequence of pieces; a piece is a character of toolchain
\* output or a fixed word of the scripts.  Concatenating the pieces gives
\* the Python string.
NL == "\n"

RECURSIVE join(_, _)
\* sep.join(items)
join(items, sep) ==
    IF items = <<>> THEN <<>>
    ELSE IF Len(items) = 1 THEN items[1]
    ELSE items[1] \o sep \o join(Tail(items), sep)

RECURSIVE split(_, _)
\* s.split(c) for a one-character separator
split(s, c) ==
    IF \A i \in 1..Len(s) : s[i] # c THEN <<s>>
    ELSE LET k == CHOOSE i \in 1..Len(s) :
                     s[i] = c /\ \A j \in 1..(i - 1) : s[j] # c
         IN  <<SubSeq(s, 1, k - 1)>> \o split(SubSeq(s, k + 1, Len(s)), c)

\* `pat in line`
contains(line, pat) ==
    \E i \in 1..(Len(line) - Len(pat) + 1) :
        SubSeq(line, i, i + Len(pat) - 1) = pat

\* str.lower, on the letters toolchain output is made of here
lower_char(c) ==
    CASE c = "E" -> "e" [] c = "R" -> "r" [] c = "O" -> "o" [] OTHER -> c
lower(line) == [i \in 1..Len(line) |-> lower_char(line[i])]

\* seq[-n:]
last(seq, n) == SubSeq(seq, IF Len(seq) > n THEN Len(seq) - n + 1 ELSE 1, Len(seq))

is_space(c) == c \in {" ", "\t", NL}

RECURSIVE lstrip(_)
lstrip(s) == IF s = <<>> \/ ~is_space(Head(s)) THEN s ELSE lstrip(Tail(s))

RECURSIVE rstrip(_)
rstrip(s) ==
    IF s = <<>> \/ ~is_space(s[Len(s)]) THEN s ELSE rstrip(SubSeq(s, 1, Len(s) - 1))

\* str.strip
strip(s) == rstrip(lstrip(s))

\* str(path)
str(p) ==
    IF p.parts = <<>> THEN <<".">>
    ELSE (IF p.abs THEN <<"/">> ELSE <<>>)
         \o join([i \in 1..Len(p.parts) |-> join([j \in 1..Len(p.parts[i]) |-> <<p.parts[i][j]>>], <<".">>)], <<"/">>)

(* ------------------------------ commands ------------------------------ *)

\* An argument is a string; a command line is a sequence of arguments.
DOCKER_IMAGE == "texlive/texlive:latest-full"

\* The words of "-pdflatex=pdflatex -shell-escape -draftmode %O %S"
draft_override ==
    <<"-pdflatex=", "pdflatex", "-shell-escape", "-draftmode", "%O", "%S">>
\* The words of "-pdflatex=pdflatex -shell-escape -draftmode -halt-on-error %O %S"
validate_override ==
    <<"-pdflatex=", "pdflatex", "-shell-escape", "-draftmode", "-halt-on-error",
      "%O", "%S">>

\* The same with the draft override used for --validate-only as well.
latex_cmd_draft_only(src, output_dir, draft, validate_only) ==
    << <<"latexmk">>, <<"-pdf">>, <<"-shell-escape">>,
       <<"-interaction=nonstopmode">>, <<"-file-line-error">>, <<"-g">>,
       <<"-output-directory=">> \o str(output_dir) >>
    \o (IF draft THEN <<draft_override>> ELSE <<>>)
    \o (IF validate_only THEN <<draft_override, <<"-g">>>> ELSE <<>>)
    \o <<str(src)>>

\* build.py run_docker_build, lines 73-92
latex_cmd(src, output_dir, draft, validate_only) ==
    << <<"latexmk">>, <<"-pdf">>, <<"-shell-escape">>,
       <<"-interaction=nonstopmode">>, <<"-file-line-error">>, <<"-g">>,
       <<"-output-directory=">> \o str(output_dir) >>
    \o (IF draft THEN <<draft_override>> ELSE <<>>)
    \o (IF validate_only THEN <<validate_override, <<"-g">>>> ELSE <<>>)
    \o <<str(src)>>

\* build.py run_docker_build, lines 94-100
docker_cmd(src, output_dir, draft, validate_only) ==
    << <<"docker">>, <<"run">>, <<"--rm">>, <<"-v">>,
       str(cwd) \o <<":/workspace">>, <<"-w">>, <<"/workspace">>,
       <<DOCKER_IMAGE>> >>
    \o latex_cmd(src, output_dir, draft, validate_only)

\* The same without the forced rebuild among the base flags.
local_cmd_no_force(src, output_dir, draft, validate_only) ==
    << <<"latexmk">>, <<"-pdf">>, <<"-shell-escape">>,
       <<"-interaction=nonstopmode">>, <<"-file-line-error">>,
       <<"-output-directory=">> \o str(output_dir) >>
    \o (IF draft THEN <<draft_override>> ELSE <<>>)
    \o (IF validate_only THEN <<validate_override, <<"-g">>>> ELSE <<>>)
    \o <<str(src)>>

\* build.py run_local_build, lines 149-168
local_cmd(src, output_dir, draft, validate_only) ==
    << <<"latexmk">>, <<"-pdf">>, <<"-shell-escape">>,
       <<"-interaction=nonstopmode">>, <<"-file-line-error">>, <<"-g">>,
       <<"-output-directory=">> \o str(output_dir) >>
    \o (IF draft THEN <<draft_override>> ELSE <<>>)
    \o (IF validate_only THEN <<validate_override, <<"-g">>>> ELSE <<>>)
    \o <<str(src)>>

\* build.py main, lines 270-282: the latexmk -c command
clean_cmd(src, output, local) ==
    (IF local THEN <<>>
     ELSE << <<"docker">>, <<"run">>, <<"--rm">>, <<"-v">>,
             str(cwd) \o <<":/workspace">>, <<"-w">>, <<"/workspace">>,
             <<DOCKER_IMAGE>> >>)
    \o << <<"latexmk">>, <<"-c">>, <<"-output-directory=">> \o str(output),
          str(src) >>

\* watch.py rebuild, lines 104-141: the command of a watch build
rebuild_cmd(src_dir, output_dir, main_file, use_local) ==
    LET main_tex == Join(src_dir, <<main_file>>)
    IN  (IF use_local THEN <<>>
         ELSE << <<"docker">>, <<"run">>, <<"--rm">>, <<"-v">>,
                 str(cwd) \o <<":/workspace">>, <<"-w">>, <<"/workspace">>,
                 <<DOCKER_IMAGE>> >>)
        \o << <<"latexmk">>, <<"-pdf">>, <<"-shell-escape">>,
              <<"-interaction=nonstopmode">>,
              <<"-output-directory=">> \o str(output_dir), str(main_tex) >>

(* --------------------------- toolchain output ------------------------- *)

Text(lines) == join([i \in 1..Len(lines) |-> lines[i] \o <<NL>>], <<>>)

LineOk == <<"o", "k">>
LineBang == <<"!", " ", "U">>
LineError == <<"x", ":", "E", "r", "r", "o", "r">>
LineUpper == <<"E", "R", "R", "O", "R">>
LineLower == <<"e", "r", "r", "o", "r", "s">>
LineNote == <<"n", "b">>

\* Numbered "! ..." lines, more of them than the scripts keep, after a line
\* that is no diagnostic.
Bang(c) == <<"!", " ", c>>
ManyBangs ==
    <<Bang("a"), LineOk, Bang("b"), Bang("c"), Bang("d"), Bang("f"), Bang("g"),
      Bang("h"), Bang("i"), Bang("j"), Bang("k"), Bang("l")>>

\* What a failing toolchain run may have written.
ToolOutputs ==
    { [stdout |-> Text(<<LineOk, LineBang, LineOk, LineError>>), stderr |-> <<>>],
      [stdout |-> Text(ManyBangs), stderr |-> <<>>],
      [stdout |-> Text(<<LineOk, LineLower>>), stderr |-> Text(<<LineUpper>>)],
      [stdout |-> Text(<<LineOk, LineOk>>), stderr |-> Text(<<LineNote>>)],
      [stdout |-> <<>>, stderr |-> <<>>] }

\* The ones a watch build is followed through.
WatchOutputs ==
    { [stdout |-> Text(<<LineOk, LineBang, LineOk, LineError>>), stderr |-> <<>>],
      [stdout |-> <<>>, stderr |-> <<>>] }

\* How a subprocess.run call ends: the exit status with what was captured,
\* or the exception raised.
NoOutput == [stdout |-> <<>>, stderr |-> <<>>]
Completed(how, out) == [how |-> how, stdout |-> out.stdout, stderr |-> out.stderr]
ProcEnds ==
    {Completed("exit0", NoOutput), Completed("timeout", NoOutput),
     Completed("error", NoOutput)}
    \cup {Completed("nonzero", o) : o \in ToolOutputs}
NotFound == Completed("notfound", NoOutput)

keep_last == 10
watch_tail == 5
docker_tail == 1000
local_tail == 500

(* ------------------------------- build.py ----------------------------- *)

Result(success, message) == [success |-> success, message |-> message]

\* run_docker_build, lines 113-118
docker_is_error(line) ==
    \/ contains(line, <<"!">>)
    \/ contains(line, <<"E", "r", "r", "o", "r">>)
    \/ contains(lower(line), <<"e", "r", "r", "o", "r">>)

\* run_docker_build, lines 113-118: the lines kept as error lines
docker_error_lines(end) ==
    SelectSeq(split(end.stdout \o end.stderr, NL), docker_is_error)

\* run_docker_build, lines 102-128, on how the subprocess ended
run_docker_build(end) ==
    CASE end.how = "exit0" -> Result(TRUE, <<"Build successful">>)
      [] end.how = "nonzero" ->
            LET output == end.stdout \o end.stderr
                error_lines == docker_error_lines(end)
            IN  Result(FALSE,
                       IF error_lines # <<>>
                       THEN join(last(error_lines, keep_last), <<NL>>)
                       ELSE last(output, docker_tail))
      [] end.how = "timeout" -> Result(FALSE, <<"Build timed out after 10 minutes">>)
      [] end.how = "notfound" ->
            Result(FALSE, <<"Docker not found. Please install Docker.">>)
      [] OTHER -> Result(FALSE, <<"Unexpected error: ", "e">>)

\* run_local_build, lines 181-184
local_is_error(line) ==
    \/ contains(line, <<"!">>)
    \/ contains(line, <<"E", "r", "r", "o", "r">>)

\* run_local_build, lines 181-184: the lines kept as error lines
local_error_lines(end) == SelectSeq(split(end.stdout, NL), local_is_error)

\* run_local_build, lines 170-194, on how the subprocess ended
run_local_build(end) ==
    CASE end.how = "exit0" -> Result(TRUE, <<"Build successful">>)
      [] end.how = "nonzero" ->
            LET error_lines == local_error_lines(end)
            IN  Result(FALSE,
                       IF error_lines # <<>>
                       THEN join(last(error_lines, keep_last), <<NL>>)
                       ELSE last(end.stdout, local_tail))
      [] end.how = "timeout" -> Result(FALSE, <<"Build timed out after 5 minutes">>)
      [] end.how = "notfound" ->
            Result(FALSE, <<"latexmk not found. Install TeX Live or use Docker (remove --local).">>)
      [] OTHER -> Result(FALSE, <<"Unexpected error: ", "e">>)

watch_extensions == {"tex", "bib", "sty", "cls"}

(* ------------------------------- state -------------------------------- *)

VARIABLES
    script,           \* which script this run is
    args,             \* the command line options of the run
    env,              \* the machine: is Docker up, is latexmk installed
    now,              \* time.time()
    building,         \* LaTeXHandler.building
    last_build_time,  \* LaTeXHandler.last_build_time
    stamp,            \* per thread: the time.time() value rebuild has read at
                      \* line 100 and not stored yet, or -1
    queue,            \* the observer's event queue
    arrived,          \* events delivered so far
    accepted,         \* events for which should_rebuild returned True so far
    pc,               \* where each thread is
    cur,              \* the event the dispatch thread is handling
    inflight,         \* per thread: start time of its running subprocess, or -1
    outcome,          \* per thread: how the subprocess.run call in hand ended
    console,          \* watch.py: what rebuild printed about the last build
    trig,             \* the event that started the previous event build
    spawned,          \* the command line of every toolchain subprocess started
                      \* so far (the `docker info` probe is not among them)
    result,           \* build.py: the (success, message) of the build
    captured,         \* the stdout and stderr of the last build subprocess that
                      \* ended
    exit_code,        \* the status the script exits with, -1 before
    lint,             \* lint.py: options, files still to lint, total_warnings
    wiz,              \* init.py: the answers, the operations attempted, success
    clean_run         \* clean.py: options, the file tree, the lists of main

wvars == <<now, building, last_build_time, stamp, queue, arrived, accepted, cur, inflight,
           outcome, console, trig>>
bvars == <<result, captured, exit_code>>
ovars == <<lint, wiz, clean_run>>
vars == <<script, args, env, pc, spawned, wvars, bvars, ovars>>

Threads == {"main", "obs"}

NoEvent == [src_path |-> RelPath(<<>>), is_directory |-> FALSE,
            at |-> -1, busy |-> FALSE, idle |-> FALSE]

NoTrigger == [at |-> -1, idle |-> FALSE]

\* What can change in the watched tree, relative to the source directory.
FsChanges ==
    { [rel |-> <<MainTex>>, dir |-> FALSE],
      [rel |-> <<Name("build"), BlxBib>>, dir |-> FALSE],
      [rel |-> <<MainAux>>, dir |-> FALSE],
      [rel |-> <<ChapDir>>, dir |-> TRUE] }

SrcDirs == {RelPath(<<Name("src")>>), AbsPath(<<Name("proj"), Name("src")>>)}
OutputDirs == {RelPath(<<Name("src"), Name("build")>>),
               AbsPath(<<Name("proj"), Name("src"), Name("build")>>)}

\* Every form of --src and --output under Docker, and one of them under
\* --local (the two differ in the command run, not in the scheduling).
WatchArgs ==
    { a \in [src : SrcDirs, output : OutputDirs, local : BOOLEAN,
             initial_build : BOOLEAN, draft : {FALSE}, validate_only : {FALSE},
             clean : {FALSE}] :
        a.local => ~a.src.abs /\ ~a.output.abs }

\* Statements of rebuild between setting the flag and clearing it.
InRebuild == {"rb_time", "rb_store", "rb_pre", "rb_run", "rb_wait", "rb_finally"}
\* The threads that have entered rebuild and not left it.
Rebuilding == {t \in Threads : pc[t] \in {"rb_set"} \cup InRebuild}
\* The interpreter may switch threads after the call of time.time() returns
\* and before its value is stored: one thread holds the value it has just
\* read while the other has still to read the clock, which moves on meanwhile
\* (by one tick at most: the switch interval is short).
AtLine100(t) == pc[t] \in {"rb_time", "rb_store"}
Descheduled(t) ==
    /\ AtLine100(t)
    /\ \E u, v \in Threads : pc[u] = "rb_store" /\ stamp[u] = now /\ pc[v] = "rb_time"
\* A thread that is waiting: for an event, in time.sleep, for its subprocess,
\* or ended.
Blocked(t) ==
    \/ pc[t] \in {"rb_wait", "m_loop", "m_exit1", "m_crashed", "o_dead", "o_none"}
    \/ Descheduled(t)
    \/ pc[t] = "o_idle" /\ (queue = <<>> \/ pc["main"] \in {"m_docker", "m_setup", "m_start"})

Running == {t \in Threads : inflight[t] >= 0}

(* ---------------------------- watch.py main --------------------------- *)

\* LaTeXHandler.__init__, lines 62-68, and an empty observer
HandlerInit ==
    /\ now = Epoch
    /\ building = FALSE
    /\ last_build_time = 0
    /\ stamp = [t \in Threads |-> -1]
    /\ queue = <<>>
    /\ arrived = 0
    /\ accepted = 0
    /\ cur = NoEvent
    /\ inflight = [t \in Threads |-> -1]
    /\ outcome = [t \in Threads |-> "none"]
    /\ console = <<>>
    /\ trig = NoTrigger

WatchInit ==
    /\ script = "watch"
    /\ args \in WatchArgs
    /\ env \in [docker_ok : BOOLEAN, latexmk_ok : {TRUE}]
    /\ (args.local => env.docker_ok)
    /\ pc = [t \in Threads |-> IF t = "main" THEN "m_docker" ELSE "o_idle"]

\* The same with the result of the availability check only reported.
WatchCheckDocker_goes_on ==
    /\ script = "watch" /\ pc["main"] = "m_docker"
    /\ pc' = [pc EXCEPT !["main"] = "m_setup"]
    /\ exit_code' = exit_code
    /\ UNCHANGED <<script, args, env, spawned, wvars, result, captured, ovars>>

\* main, lines 229-234: the Docker availability check, sys.exit(1) on failure
WatchCheckDocker ==
    /\ script = "watch" /\ pc["main"] = "m_docker"
    /\ pc' = [pc EXCEPT !["main"] =
                IF ~args.local /\ ~env.docker_ok THEN "m_exit1" ELSE "m_setup"]
    /\ exit_code' = IF ~args.local /\ ~env.docker_ok THEN 1 ELSE exit_code
    /\ UNCHANGED <<script, args, env, spawned, wvars, result, captured, ovars>>

\* main, lines 236-254: mkdir, LaTeXHandler(...), observer.schedule(...)
WatchSetup ==
    /\ pc["main"] = "m_setup"
    /\ pc' = [pc EXCEPT !["main"] = "m_start"]
    /\ UNCHANGED <<script, args, env, spawned, wvars, bvars, ovars>>

\* main, lines 256-263: observer.start(), then the initial build if asked for
ObserverStart ==
    /\ pc["main"] = "m_start"
    /\ pc' = [pc EXCEPT !["main"] = "m_initial"]
    /\ UNCHANGED <<script, args, env, spawned, wvars, bvars, ovars>>

InitialBuild ==
    /\ pc["main"] = "m_initial"
    /\ pc' = [pc EXCEPT !["main"] = IF args.initial_build THEN "rb_set" ELSE "m_loop"]
    /\ UNCHANGED <<script, args, env, spawned, wvars, bvars, ovars>>

(* ------------------------- the observer's queue ----------------------- *)

\* The process is alive: an exception that leaves main ends it, and its
\* daemon threads with it.
Live == pc["main"] # "m_crashed"

\* observer.start() has run and the process is alive.
ObserverStarted ==
    script = "watch" /\ Live /\ pc["main"] \notin {"m_docker", "m_setup", "m_start", "m_exit1", "b_docker",
                                "b_clean", "b_build", "b_report", "b_exit", "b_crashed"}

\* The event watchdog builds for a change: src_path is the watched directory
\* as it was given to observer.schedule, joined with the changed name.
Event(c) ==
    [src_path |-> Join(args.src, c.rel), is_directory |-> c.dir,
     at |-> now, busy |-> Running # {},
     idle |-> ~building /\ Rebuilding = {}]

\* A change in the watched tree: the emitter thread queues an event.
Arrive(c) ==
    /\ ObserverStarted
    /\ arrived < MaxEvents
    /\ queue' = Append(queue, Event(c))
    /\ arrived' = arrived + 1
    /\ UNCHANGED <<script, args, env, spawned, now, building, last_build_time, stamp, accepted,
                   pc, cur, inflight, outcome, console, trig, bvars, ovars>>

\* The clock advances while every thread is blocked and no subprocess has
\* reached its timeout.
Tick ==
    /\ ObserverStarted
    /\ now < MaxTime
    /\ \A t \in Threads : Blocked(t)
    /\ \A t \in Running : now - inflight[t] < TimeoutTicks
    /\ now' = now + 1
    /\ UNCHANGED <<script, args, env, spawned, building, last_build_time, stamp,
                   queue, arrived, accepted, pc, cur, inflight, outcome, console, trig, bvars, ovars>>

(* --------------------------- LaTeXHandler ----------------------------- *)

\* The same with every event handled as it arrives, on a thread of its own,
\* also while the build of an earlier event is waiting for its subprocess.
Dispatch_while_building ==
    /\ ObserverStarted /\ pc["obs"] \in {"o_idle", "rb_wait"} /\ queue # <<>>
    /\ queue' = Tail(queue)
    /\ IF Head(queue).is_directory
       THEN UNCHANGED <<pc, cur>>
       ELSE pc' = [pc EXCEPT !["obs"] = "sr_building"] /\ cur' = Head(queue)
    /\ UNCHANGED <<script, args, env, spawned, now, building, last_build_time, stamp,
                   arrived, accepted, inflight, outcome, console, trig, bvars, ovars>>

\* on_modified / on_created, lines 163-171: `not event.is_directory and ...`
Dispatch ==
    /\ ObserverStarted /\ pc["obs"] = "o_idle" /\ queue # <<>>
    /\ queue' = Tail(queue)
    /\ IF Head(queue).is_directory
       THEN UNCHANGED <<pc, cur>>
       ELSE pc' = [pc EXCEPT !["obs"] = "sr_building"] /\ cur' = Head(queue)
    /\ UNCHANGED <<script, args, env, spawned, now, building, last_build_time, stamp,
                   arrived, accepted, inflight, outcome, console, trig, bvars, ovars>>

\* should_rebuild returns False: the handler returns without a build
Reject == pc' = [pc EXCEPT !["obs"] = "o_idle"] /\ cur' = NoEvent

\* should_rebuild, lines 75-76
SR_Building ==
    /\ Live /\ pc["obs"] = "sr_building"
    /\ IF building THEN Reject ELSE pc' = [pc EXCEPT !["obs"] = "sr_filter"] /\ cur' = cur
    /\ UNCHANGED <<script, args, env, spawned, now, building, last_build_time, stamp,
                   queue, arrived, accepted, inflight, outcome, console, trig, bvars, ovars>>

\* should_rebuild, lines 78-88: the suffix and the output directory
PassesFilter(event) ==
    /\ suffix(event.src_path) \in watch_extensions
    /\ ~relative_to(event.src_path, args.output)

SR_Filter ==
    /\ Live /\ pc["obs"] = "sr_filter"
    /\ IF PassesFilter(cur)
       THEN pc' = [pc EXCEPT !["obs"] = "sr_debounce"] /\ cur' = cur
       ELSE Reject
    /\ UNCHANGED <<script, args, env, spawned, now, building, last_build_time, stamp,
                   queue, arrived, accepted, inflight, outcome, console, trig, bvars, ovars>>

\* should_rebuild, lines 90-95
Debounced(current_time) == current_time - last_build_time < debounce_seconds

SR_Debounce ==
    /\ Live /\ pc["obs"] = "sr_debounce"
    /\ IF Debounced(now)
       THEN Reject /\ accepted' = accepted
       ELSE /\ pc' = [pc EXCEPT !["obs"] = "rb_set"] /\ cur' = cur
            /\ accepted' = accepted + 1
    /\ UNCHANGED <<script, args, env, spawned, now, building, last_build_time, stamp,
                   queue, arrived, inflight, outcome, console, trig, bvars, ovars>>

\* rebuild, line 99
RB_SetBuilding(t) ==
    /\ Live /\ pc[t] = "rb_set"
    /\ building' = TRUE
    /\ pc' = [pc EXCEPT ![t] = "rb_time"]
    /\ UNCHANGED <<script, args, env, spawned, now, last_build_time, stamp, queue,
                   arrived, accepted, cur, inflight, outcome, console, trig, bvars, ovars>>

\* rebuild, line 100, `time.time()`: the value is on the thread's stack
RB_ReadTime(t) ==
    /\ Live /\ pc[t] = "rb_time"
    /\ stamp' = [stamp EXCEPT ![t] = now]
    /\ pc' = [pc EXCEPT ![t] = "rb_store"]
    /\ UNCHANGED <<script, args, env, spawned, now, building, last_build_time, queue,
                   arrived, accepted, cur, inflight, outcome, console, trig, bvars, ovars>>

\* rebuild, line 100, `self.last_build_time = ...`: the store of that value
RB_SetTime(t) ==
    /\ Live /\ pc[t] = "rb_store"
    /\ last_build_time' = stamp[t]
    /\ stamp' = [stamp EXCEPT ![t] = -1]
    /\ pc' = [pc EXCEPT ![t] = "rb_pre"]
    /\ UNCHANGED <<script, args, env, spawned, now, building, queue, arrived, accepted,
                   cur, inflight, outcome, console, trig, bvars, ovars>>

\* Where a thread lands when rebuild returns, and when it raises.
Returned(t) == IF t = "main" THEN "m_loop" ELSE "o_idle"
Raised(t) == IF t = "main" THEN "m_crashed" ELSE "o_dead"

\* rebuild, lines 102-105, outside the try block: console.print and
\* Path.cwd() either succeed or raise (OSError on a closed terminal,
\* FileNotFoundError when the working directory was removed).
RB_Pre(t) ==
    /\ Live /\ pc[t] = "rb_pre"
    /\ \E ok \in BOOLEAN :
          pc' = [pc EXCEPT ![t] = IF ok THEN "rb_run" ELSE Raised(t)]
    /\ UNCHANGED <<script, args, env, spawned, wvars, bvars, ovars>>

\* rebuild, lines 107-141: subprocess.run starts the toolchain
RB_Run(t) ==
    /\ Live /\ pc[t] = "rb_run"
    /\ inflight' = [inflight EXCEPT ![t] = now]
    /\ spawned' = Append(spawned,
          rebuild_cmd(args.src, args.output, MainTex, args.local))
    /\ pc' = [pc EXCEPT ![t] = "rb_wait"]
    /\ UNCHANGED <<script, args, env, now, building, last_build_time, stamp,
                   queue, arrived, accepted, cur, outcome, console, trig, bvars, ovars>>

\* How a subprocess.run call can end at a given age of the subprocess.
WatchEnds(age) ==
    IF age >= TimeoutTicks THEN {Completed("timeout", NoOutput)}
    ELSE {Completed("exit0", NoOutput), Completed("error", NoOutput)}
         \cup {Completed("nonzero", o) : o \in WatchOutputs}

printed_line(line) == strip(line) # <<>>

\* rebuild, lines 143-157: what is printed about the build
rebuild_report(end) ==
    CASE end.how = "exit0" -> << <<"Build successful!">> >>
      [] end.how = "nonzero" ->
            LET output == end.stdout \o end.stderr
                error_lines == last(split(strip(output), NL), watch_tail)
                shown == SelectSeq(error_lines, printed_line)
            IN  << <<"Build failed">> >>
                \o [i \in 1..Len(shown) |-> <<"  ">> \o shown[i]]
      [] end.how = "timeout" -> << <<"Build timed out">> >>
      [] OTHER -> << <<"Error: ", "e">> >>

\* The same with a timed-out subprocess run once more.
RB_Done_retries(t) ==
    /\ Live /\ pc[t] = "rb_wait"
    /\ \E end \in WatchEnds(now - inflight[t]) :
          /\ outcome' = [outcome EXCEPT ![t] = end.how]
          /\ console' = rebuild_report(end)
          /\ captured' = [stdout |-> end.stdout, stderr |-> end.stderr]
    /\ inflight' = [inflight EXCEPT ![t] = -1]
    /\ pc' = [pc EXCEPT ![t] = IF outcome'[t] = "timeout" THEN "rb_run"
                                ELSE "rb_finally"]
    /\ UNCHANGED <<script, args, env, spawned, now, building, last_build_time, stamp,
                   queue, arrived, accepted, cur, trig, result, exit_code, ovars>>

\* rebuild, lines 143-157: the subprocess ends; the result is printed, or
\* the except clause of what was raised runs
RB_Done(t) ==
    /\ Live /\ pc[t] = "rb_wait"
    /\ \E end \in WatchEnds(now - inflight[t]) :
          /\ outcome' = [outcome EXCEPT ![t] = end.how]
          /\ console' = rebuild_report(end)
          /\ captured' = [stdout |-> end.stdout, stderr |-> end.stderr]
    /\ inflight' = [inflight EXCEPT ![t] = -1]
    /\ pc' = [pc EXCEPT ![t] = "rb_finally"]
    /\ UNCHANGED <<script, args, env, spawned, now, building, last_build_time, stamp,
                   queue, arrived, accepted, cur, trig, result, exit_code, ovars>>

\* The same with the flag cleared at the end of the try body and of the
\* generic except clause only, not in a finally clause.
RB_Finally_not_on_timeout(t) ==
    /\ Live /\ pc[t] = "rb_finally"
    /\ building' = IF outcome[t] = "timeout" THEN building ELSE FALSE
    /\ pc' = [pc EXCEPT ![t] = Returned(t)]
    /\ outcome' = [outcome EXCEPT ![t] = "none"]
    /\ trig' = IF t = "obs" THEN [at |-> cur.at, idle |-> cur.idle] ELSE trig
    /\ cur' = IF t = "obs" THEN NoEvent ELSE cur
    /\ UNCHANGED <<script, args, env, spawned, now, last_build_time, stamp, queue,
                   arrived, accepted, inflight, console, bvars, ovars>>

\* rebuild, lines 158-161: the finally clause, then rebuild returns
RB_Finally(t) ==
    /\ Live /\ pc[t] = "rb_finally"
    /\ building' = FALSE
    /\ pc' = [pc EXCEPT ![t] = Returned(t)]
    /\ outcome' = [outcome EXCEPT ![t] = "none"]
    /\ trig' = IF t = "obs" THEN [at |-> cur.at, idle |-> cur.idle] ELSE trig
    /\ cur' = IF t = "obs" THEN NoEvent ELSE cur
    /\ UNCHANGED <<script, args, env, spawned, now, last_build_time, stamp, queue,
                   arrived, accepted, inflight, console, bvars, ovars>>

(* ----------------------------- build.py main ------------------------- *)

BuildArgs ==
    [src : {RelPath(<<Name("src"), MainTex>>),
            AbsPath(<<Name("proj"), Name("src"), MainTex>>)},
     output : {RelPath(<<Name("build")>>), AbsPath(<<Name("proj"), Name("build")>>)},
     local : BOOLEAN, initial_build : {FALSE}, draft : BOOLEAN,
     validate_only : BOOLEAN, clean : BOOLEAN]

NoResult == Result(FALSE, <<>>)

BuildInit ==
    /\ script = "build"
    /\ args \in BuildArgs
    /\ env \in [docker_ok : BOOLEAN, latexmk_ok : BOOLEAN]
    /\ (args.local => env.docker_ok)
    /\ (~args.local => env.latexmk_ok)
    /\ pc = [t \in Threads |-> IF t = "main" THEN "b_docker" ELSE "o_none"]

\* main, lines 256-264: the Docker availability check, then mkdir
BuildCheckDocker ==
    /\ script = "build" /\ pc["main"] = "b_docker"
    /\ IF ~args.local /\ ~env.docker_ok
       THEN exit_code' = 1 /\ pc' = [pc EXCEPT !["main"] = "b_exit"]
       ELSE exit_code' = exit_code /\ pc' = [pc EXCEPT !["main"] = "b_clean"]
    /\ UNCHANGED <<script, args, env, spawned, wvars, result, captured, ovars>>

\* main, lines 266-282: latexmk -c, run with no except clause around it
BuildClean ==
    /\ pc["main"] = "b_clean"
    /\ IF ~args.clean
       THEN pc' = [pc EXCEPT !["main"] = "b_build"] /\ spawned' = spawned
       ELSE IF args.local /\ ~env.latexmk_ok
       THEN pc' = [pc EXCEPT !["main"] = "b_crashed"] /\ spawned' = spawned
       ELSE /\ pc' = [pc EXCEPT !["main"] = "b_build"]
            /\ spawned' = Append(spawned, clean_cmd(args.src, args.output, args.local))
    /\ UNCHANGED <<script, args, env, wvars, bvars, ovars>>

\* How the toolchain subprocess of this run can end.
BuildEnds == IF args.local /\ ~env.latexmk_ok THEN {NotFound} ELSE ProcEnds

\* main, lines 284-299: run_local_build or run_docker_build
BuildRun ==
    /\ pc["main"] = "b_build"
    /\ \E end \in BuildEnds :
          /\ result' = IF args.local THEN run_local_build(end) ELSE run_docker_build(end)
          /\ outcome' = [outcome EXCEPT !["main"] = end.how]
          /\ captured' = [stdout |-> end.stdout, stderr |-> end.stderr]
    /\ spawned' = Append(spawned,
          IF args.local
          THEN local_cmd(args.src, args.output, args.draft, args.validate_only)
          ELSE docker_cmd(args.src, args.output, args.draft, args.validate_only))
    /\ pc' = [pc EXCEPT !["main"] = "b_report"]
    /\ UNCHANGED <<script, args, env, now, building, last_build_time, stamp, queue,
                   arrived, accepted, cur, inflight, console, trig, exit_code, ovars>>

\* main, lines 301-321
BuildReport ==
    /\ pc["main"] = "b_report"
    /\ exit_code' = IF result.success THEN 0 ELSE 1
    /\ pc' = [pc EXCEPT !["main"] = "b_exit"]
    /\ UNCHANGED <<script, args, env, spawned, wvars, result, captured, ovars>>

(* ------------------------------- lint.py ------------------------------ *)

\* The options of the scripts that take none of the build options.
NoArgs ==
    [src |-> RelPath(<<Name("src")>>), output |-> RelPath(<<Name("build")>>),
     local |-> FALSE, initial_build |-> FALSE, draft |-> FALSE,
     validate_only |-> FALSE, clean |-> FALSE]

\* The i-th .tex file find_tex_files returns.
TexFile(i) == Join(RelPath(<<Name("src")>>), << <<IF i = 1 THEN "a" ELSE "b", "tex">> >>)

\* run_chktex, lines 72-83
chktex_cmd(tex_file) ==
    << <<"docker">>, <<"run">>, <<"--rm">>, <<"-v">>,
       str(cwd) \o <<":/workspace">>, <<"-w">>, <<"/workspace">>,
       <<DOCKER_IMAGE>>, <<"chktex">>, <<"-v1">>, <<"-q">> >> \o <<str(tex_file)>>

\* run_lacheck, lines 118-125
lacheck_cmd(tex_file) ==
    << <<"docker">>, <<"run">>, <<"--rm">>, <<"-v">>,
       str(cwd) \o <<":/workspace">>, <<"-w">>, <<"/workspace">>,
       <<DOCKER_IMAGE>>, <<"lacheck">> >> \o <<str(tex_file)>>

\* What a linter run returns as its count: -1 on a timeout or an exception,
\* else the number of non-blank lines it wrote.
LintCounts == {-1, 0, 1}

NoLint == [found |-> 0, left |-> 0, lacheck |-> FALSE, strict |-> FALSE,
           total_warnings |-> 0]
NoWiz == [delete_samples |-> FALSE, delete_bib |-> FALSE,
          reset_git_history |-> FALSE, proceed |-> FALSE,
          attempted |-> {}, failed |-> {}, success |-> TRUE]

LintInit ==
    /\ script = "lint"
    /\ args = NoArgs
    /\ env \in [docker_ok : BOOLEAN, latexmk_ok : {TRUE}]
    /\ \E n \in 0..MaxFiles, l \in BOOLEAN, st \in BOOLEAN :
          lint = [found |-> n, left |-> n, lacheck |-> l, strict |-> st,
                  total_warnings |-> 0]
    /\ wiz = NoWiz
    /\ pc = [t \in Threads |-> IF t = "main" THEN "l_docker" ELSE "o_none"]

\* main, lines 181-185: the Docker availability check
LintCheckDocker ==
    /\ script = "lint" /\ pc["main"] = "l_docker"
    /\ IF ~env.docker_ok
       THEN exit_code' = 1 /\ pc' = [pc EXCEPT !["main"] = "l_exit"]
       ELSE exit_code' = exit_code /\ pc' = [pc EXCEPT !["main"] = "l_find"]
    /\ UNCHANGED <<script, args, env, spawned, wvars, result, captured, ovars>>

\* main, lines 187-197: the files to lint; none found exits 0
LintFind ==
    /\ pc["main"] = "l_find"
    /\ IF lint.found = 0
       THEN exit_code' = 0 /\ pc' = [pc EXCEPT !["main"] = "l_exit"]
       ELSE exit_code' = exit_code /\ pc' = [pc EXCEPT !["main"] = "l_chktex"]
    /\ UNCHANGED <<script, args, env, spawned, wvars, result, captured, ovars>>

\* Where the for loop of main goes after a file.
NextFile(left) == IF left > 1 THEN "l_chktex" ELSE "l_summary"

\* main, lines 203-213: run_chktex on the next file
LintChktex ==
    /\ pc["main"] = "l_chktex"
    /\ spawned' = Append(spawned, chktex_cmd(TexFile(lint.found - lint.left + 1)))
    /\ \E count \in LintCounts :
          IF count < 0
          THEN /\ lint' = [lint EXCEPT !.left = @ - 1]
               /\ pc' = [pc EXCEPT !["main"] = NextFile(lint.left)]
          ELSE IF lint.lacheck
          THEN /\ lint' = [lint EXCEPT !.total_warnings = @ + count]
               /\ pc' = [pc EXCEPT !["main"] = "l_lacheck"]
          ELSE /\ lint' = [lint EXCEPT !.total_warnings = @ + count, !.left = @ - 1]
               /\ pc' = [pc EXCEPT !["main"] = NextFile(lint.left)]
    /\ UNCHANGED <<script, args, env, wvars, bvars, wiz, clean_run>>

\* main, lines 215-221: run_lacheck on the same file
LintLacheck ==
    /\ pc["main"] = "l_lacheck"
    /\ spawned' = Append(spawned, lacheck_cmd(TexFile(lint.found - lint.left + 1)))
    /\ \E count \in LintCounts :
          lint' = [lint EXCEPT !.total_warnings = IF count > 0 THEN @ + count ELSE @,
                               !.left = @ - 1]
    /\ pc' = [pc EXCEPT !["main"] = NextFile(lint.left)]
    /\ UNCHANGED <<script, args, env, wvars, bvars, wiz, clean_run>>

\* main, lines 257-271: the final summary and the exit status
LintSummary ==
    /\ pc["main"] = "l_summary"
    /\ exit_code' = IF lint.total_warnings # 0 /\ lint.strict THEN 1 ELSE 0
    /\ pc' = [pc EXCEPT !["main"] = "l_exit"]
    /\ UNCHANGED <<script, args, env, spawned, wvars, result, captured, ovars>>

(* ------------------------------- init.py ------------------------------ *)

\* The operations of the wizard, in the order main applies them.
Operations ==
    <<"update_main_tex", "update_packages_tex", "clear_introduction",
      "clear_bibliography", "reset_git">>

\* main, lines 182-220: is the operation one main was asked to apply
Selected(op) ==
    CASE op = "clear_introduction" -> wiz.delete_samples
      [] op = "clear_bibliography" -> wiz.delete_bib
      [] op = "reset_git" -> wiz.reset_git_history
      [] OTHER -> TRUE

\* The pc of the i-th operation, and of the return after the last.
OpPc(i) == IF i > Len(Operations) THEN "i_return" ELSE Operations[i]

\* main, lines 132-173: the prompts, answered
WizInit ==
    /\ script = "init"
    /\ args = NoArgs
    /\ env = [docker_ok |-> TRUE, latexmk_ok |-> TRUE]
    /\ lint = NoLint
    /\ \E ds \in BOOLEAN, db \in BOOLEAN, rg \in BOOLEAN, go \in BOOLEAN :
          wiz = [delete_samples |-> ds, delete_bib |-> db, reset_git_history |-> rg,
                 proceed |-> go, attempted |-> {}, failed |-> {}, success |-> TRUE]
    /\ pc = [t \in Threads |-> IF t = "main" THEN "i_confirm" ELSE "o_none"]

\* main, lines 173-180: "Proceed with these settings?"; a no returns 0
WizConfirm ==
    /\ script = "init" /\ pc["main"] = "i_confirm"
    /\ IF wiz.proceed
       THEN exit_code' = exit_code /\ pc' = [pc EXCEPT !["main"] = OpPc(1)]
       ELSE exit_code' = 0 /\ pc' = [pc EXCEPT !["main"] = "i_exit"]
    /\ UNCHANGED <<script, args, env, spawned, wvars, result, captured, ovars>>

\* The same with main returning at the first operation that fails.
WizApply_stops(i) ==
    /\ i \in 1..Len(Operations) /\ pc["main"] = Operations[i]
    /\ IF Selected(Operations[i])
       THEN \E ok \in BOOLEAN :
               /\ wiz' = [wiz EXCEPT !.attempted = @ \cup {Operations[i]},
                                     !.failed = IF ok THEN @ ELSE @ \cup {Operations[i]},
                                     !.success = IF ok THEN @ ELSE FALSE]
               /\ pc' = [pc EXCEPT !["main"] = IF ok THEN OpPc(i + 1) ELSE "i_return"]
       ELSE wiz' = wiz /\ pc' = [pc EXCEPT !["main"] = OpPc(i + 1)]
    /\ UNCHANGED <<script, args, env, spawned, wvars, bvars, lint, clean_run>>

\* main, lines 182-215: one operation.  When selected it is called; it
\* returns True, or catches what was raised and returns False (update_file,
\* lines 34-44, and the like), and main clears success on False.
WizApply(i) ==
    /\ i \in 1..Len(Operations) /\ pc["main"] = Operations[i]
    /\ IF Selected(Operations[i])
       THEN \E ok \in BOOLEAN :
               wiz' = [wiz EXCEPT !.attempted = @ \cup {Operations[i]},
                                  !.failed = IF ok THEN @ ELSE @ \cup {Operations[i]},
                                  !.success = IF ok THEN @ ELSE FALSE]
       ELSE wiz' = wiz
    /\ pc' = [pc EXCEPT !["main"] = OpPc(i + 1)]
    /\ UNCHANGED <<script, args, env, spawned, wvars, bvars, lint, clean_run>>

\* main, lines 217-230, and sys.exit(main())
WizReturn ==
    /\ pc["main"] = "i_return"
    /\ exit_code' = IF wiz.success THEN 0 ELSE 1
    /\ pc' = [pc EXCEPT !["main"] = "i_exit"]
    /\ UNCHANGED <<script, args, env, spawned, wvars, result, captured, ovars>>

(* ------------------------------- clean.py ----------------------------- *)

\* AUX_EXTENSIONS, lines 31-37, each without its leading dot and split at
\* its dots
AUX_EXTENSIONS ==
    { <<"aux">>, <<"bbl">>, <<"bcf">>, <<"blg">>, <<"fdb_latexmk">>, <<"fls">>,
      <<"log">>, <<"out">>, <<"run", "xml">>, <<"synctex", "gz">>, <<"toc">>,
      <<"lof">>, <<"lot">>, <<"nav">>, <<"snm">>, <<"vrb">>, <<"idx">>,
      <<"ilg">>, <<"ind">>, <<"glo">>, <<"gls">>, <<"glg">>, <<"acn">>,
      <<"acr">>, <<"alg">> }

\* files_to_delete[:20], line 168
show_limit == 20

\* Path('.') and Path('src')
Dot == RelPath(<<>>)
SrcPath == RelPath(<<Name("src")>>)

\* Path.parent and Path.name
parent(p) == [abs |-> p.abs, parts |-> SubSeq(p.parts, 1, Len(p.parts) - 1)]
name_of(p) == p.parts[Len(p.parts)]

\* p is below directory d, at any depth.
Inside(p, d) ==
    p.abs = d.abs /\ Len(d.parts) < Len(p.parts) /\ IsPrefix(d.parts, p.parts)

\* A directory entry: a path and whether it is a directory.
Entry(p, is_dir) == [path |-> p, dir |-> is_dir]

\* The entries a project tree with build directory bd can hold, in the order
\* a scan of the tree meets them.
Listing(bd) ==
    << Entry(SrcPath, TRUE),
       Entry(Join(SrcPath, <<MainTex>>), FALSE),
       Entry(Join(SrcPath, <<MainAux>>), FALSE),
       Entry(Join(SrcPath, <<Name("_minted-main")>>), TRUE),
       Entry(Join(SrcPath, <<Name("_minted-main"), <<"default", "pygstyle">>>>), FALSE),
       Entry(Join(Dot, <<Name("_minted-main")>>), TRUE),
       Entry(bd, TRUE),
       Entry(Join(bd, << <<"", "gitkeep">> >>), FALSE),
       Entry(Join(bd, << <<"main", "log">> >>), FALSE),
       Entry(Join(bd, << <<"main", "pdf">> >>), FALSE),
       Entry(Join(bd, << <<"main", "run", "xml">> >>), FALSE),
       Entry(Join(bd, << <<"main", "synctex", "gz">> >>), FALSE),
       Entry(Join(bd, <<Name("chapters")>>), TRUE),
       Entry(Join(bd, <<Name("chapters"), <<"intro", "aux">>>>), FALSE) >>
    \o [i \in 1..ManyAux |-> Entry(Join(SrcPath, << <<ToString(i), "aux">> >>), FALSE)]

\* The trees clean.py is run on: a fresh checkout, one after a build, one
\* after a build with many auxiliary files in src/.
Trees == {"fresh", "built", "many"}
InTree(tree, k) ==
    CASE tree = "fresh" -> k \in {1, 2, 7, 8}
      [] tree = "built" -> k <= 14
      [] OTHER -> TRUE
TreePaths(tree, bd) ==
    {Listing(bd)[k].path : k \in {j \in 1..Len(Listing(bd)) : InTree(tree, j)}}

IsDir(bd, p) == \E k \in 1..Len(Listing(bd)) : Listing(bd)[k] = Entry(p, TRUE)
IsFile(bd, p) == \E k \in 1..Len(Listing(bd)) : Listing(bd)[k] = Entry(p, FALSE)

\* The paths of a listing that pass a test, in scan order.
Scan(bd, kept) ==
    LET paths == [k \in 1..Len(Listing(bd)) |-> Listing(bd)[k].path]
        Found(p) == p \in kept
    IN  SelectSeq(paths, Found)

\* find_aux_files, lines 45-55
find_aux_files(bd, exists, directory) ==
    IF directory \notin exists THEN <<>>
    ELSE LET Aux(item) ==
                 /\ Inside(item, directory)
                 /\ IsFile(bd, item)
                 /\ <<suffix(item)>> \in AUX_EXTENSIONS
         IN  Scan(bd, {item \in exists : Aux(item)})

\* glob('_minted-*') in a directory, directories only
minted_in(bd, exists, directory) ==
    LET Minted(item) ==
            /\ parent(item) = directory /\ item # directory
            /\ name_of(item) \in {Name("_minted-main")}
            /\ IsDir(bd, item)
    IN  Scan(bd, {item \in exists : Minted(item)})

\* find_minted_dirs(Path('.')), lines 58-75; the working directory exists
find_minted_dirs(bd, exists) ==
    minted_in(bd, exists, Dot)
    \o (IF SrcPath \in exists THEN minted_in(bd, exists, SrcPath) ELSE <<>>)

\* main, lines 134-140: what --all adds, files and directories
all_items(bd, exists, dirs) ==
    LET Item(item) ==
            /\ parent(item) = bd /\ item # bd
            /\ name_of(item) # <<"", "gitkeep">>
            /\ IsDir(bd, item) = dirs
    IN  Scan(bd, {item \in exists : Item(item)})

\* The regular files below a directory: d.rglob('*') with is_file().
FilesBelow(bd, exists, d) == {p \in exists : Inside(p, d) /\ IsFile(bd, p)}

RECURSIVE dirs_size(_, _, _)
\* main, lines 149-155, every file being one byte
dirs_size(bd, exists, ds) ==
    IF ds = <<>> THEN 0
    ELSE Cardinality(FilesBelow(bd, exists, Head(ds))) + dirs_size(bd, exists, Tail(ds))

NoClean ==
    [dry_run |-> FALSE, clean_all |-> FALSE, build_dir |-> RelPath(<<Name("build")>>),
     tree |-> "fresh", exists |-> {}, locked |-> {}, files_to_delete |-> <<>>,
     dirs_to_delete |-> <<>>, total_size |-> 0, i |-> 1, report |-> <<>>]

BuildDirs == {RelPath(<<Name("build")>>), RelPath(<<Name("src"), Name("build")>>)}

\* What cannot be deleted in a run: nothing, one file, or one directory.
Locked(bd) ==
    { {}, {Join(SrcPath, <<MainAux>>)}, {Join(bd, <<Name("chapters")>>)} }

CleanInit ==
    /\ script = "clean"
    /\ args = NoArgs
    /\ env = [docker_ok |-> TRUE, latexmk_ok |-> TRUE]
    /\ lint = NoLint /\ wiz = NoWiz
    /\ \E dr \in BOOLEAN, ca \in BOOLEAN, bd \in BuildDirs, tr \in Trees :
          \E lk \in Locked(bd) :
             clean_run = [NoClean EXCEPT !.dry_run = dr, !.clean_all = ca,
                                         !.build_dir = bd, !.tree = tr,
                                         !.exists = TreePaths(tr, bd), !.locked = lk]
    /\ pc = [t \in Threads |-> IF t = "main" THEN "c_find" ELSE "o_none"]

\* main, lines 116-163: the two lists and the total size; nothing found
\* returns at once
CleanFind ==
    /\ script = "clean" /\ pc["main"] = "c_find"
    /\ LET bd == clean_run.build_dir
           ex == clean_run.exists
           files == find_aux_files(bd, ex, SrcPath)
                    \o (IF bd \in ex THEN find_aux_files(bd, ex, bd) ELSE <<>>)
                    \o (IF clean_run.clean_all /\ bd \in ex
                        THEN all_items(bd, ex, FALSE) ELSE <<>>)
           dirs == find_minted_dirs(bd, ex)
                   \o (IF clean_run.clean_all /\ bd \in ex
                       THEN all_items(bd, ex, TRUE) ELSE <<>>)
       IN  /\ clean_run' = [clean_run EXCEPT
                               !.files_to_delete = files,
                               !.dirs_to_delete = dirs,
                               !.total_size = Len(files) + dirs_size(bd, ex, dirs)]
           /\ IF files = <<>> /\ dirs = <<>>
              THEN exit_code' = 0 /\ pc' = [pc EXCEPT !["main"] = "c_exit"]
              ELSE exit_code' = exit_code /\ pc' = [pc EXCEPT !["main"] = "c_files"]
    /\ UNCHANGED <<script, args, env, spawned, wvars, result, captured, lint, wiz>>

\* main, lines 166-179: one turn of `for f in files_to_delete[:20]`
CleanFile ==
    /\ pc["main"] = "c_files"
    /\ LET files == SubSeq(clean_run.files_to_delete, 1,
                           IF Len(clean_run.files_to_delete) > show_limit
                           THEN show_limit ELSE Len(clean_run.files_to_delete))
           i == clean_run.i
       IN  IF i > Len(files)
           THEN /\ clean_run' = [clean_run EXCEPT !.i = 1]
                /\ pc' = [pc EXCEPT !["main"] = "c_dirs"]
           ELSE /\ pc' = pc
                /\ clean_run' =
                     IF clean_run.dry_run
                     THEN [clean_run EXCEPT !.i = i + 1,
                              !.report = Append(@, <<"Would delete", files[i]>>)]
                     ELSE IF files[i] \notin clean_run.exists \/ files[i] \in clean_run.locked
                     THEN [clean_run EXCEPT !.i = i + 1,
                              !.report = Append(@, <<"Failed", files[i]>>)]
                     ELSE [clean_run EXCEPT !.i = i + 1,
                              !.exists = @ \ {files[i]},
                              !.report = Append(@, <<"Deleted", files[i]>>)]
    /\ UNCHANGED <<script, args, env, spawned, wvars, bvars, lint, wiz>>

\* The same with the directories removed in a dry run as well.
CleanDir_in_dry_run ==
    /\ pc["main"] = "c_dirs"
    /\ LET dirs == clean_run.dirs_to_delete
           i == clean_run.i
       IN  IF i > Len(dirs)
           THEN /\ clean_run' = [clean_run EXCEPT !.i = 1]
                /\ pc' = [pc EXCEPT !["main"] = "c_summary"]
           ELSE /\ pc' = pc
                /\ clean_run' =
                     IF dirs[i] \notin clean_run.exists \/ dirs[i] \in clean_run.locked
                     THEN [clean_run EXCEPT !.i = i + 1,
                              !.report = Append(@, <<"Failed", dirs[i]>>)]
                     ELSE [clean_run EXCEPT !.i = i + 1,
                              !.exists = {p \in @ : p # dirs[i] /\ ~Inside(p, dirs[i])},
                              !.report = Append(@, <<"Deleted", dirs[i]>>)]
    /\ UNCHANGED <<script, args, env, spawned, wvars, bvars, lint, wiz>>

\* main, lines 182-192: one turn of `for d in dirs_to_delete`; shutil.rmtree
\* removes the directory with all below it, or fails
CleanDir ==
    /\ pc["main"] = "c_dirs"
    /\ LET dirs == clean_run.dirs_to_delete
           i == clean_run.i
       IN  IF i > Len(dirs)
           THEN /\ clean_run' = [clean_run EXCEPT !.i = 1]
                /\ pc' = [pc EXCEPT !["main"] = "c_summary"]
           ELSE /\ pc' = pc
                /\ clean_run' =
                     IF clean_run.dry_run
                     THEN [clean_run EXCEPT !.i = i + 1,
                              !.report = Append(@, <<"Would delete", dirs[i]>>)]
                     ELSE IF dirs[i] \notin clean_run.exists \/ dirs[i] \in clean_run.locked
                     THEN [clean_run EXCEPT !.i = i + 1,
                              !.report = Append(@, <<"Failed", dirs[i]>>)]
                     ELSE [clean_run EXCEPT !.i = i + 1,
                              !.exists = {p \in @ : p # dirs[i] /\ ~Inside(p, dirs[i])},
                              !.report = Append(@, <<"Deleted", dirs[i]>>)]
    /\ UNCHANGED <<script, args, env, spawned, wvars, bvars, lint, wiz>>

\* main, lines 194-200: the summary; main returns and the script exits 0
CleanSummary ==
    /\ pc["main"] = "c_summary"
    /\ exit_code' = 0
    /\ pc' = [pc EXCEPT !["main"] = "c_exit"]
    /\ UNCHANGED <<script, args, env, spawned, wvars, result, captured, ovars>>

(* ---------------------------- specification --------------------------- *)

Init ==
    /\ \/ (WatchInit \/ BuildInit) /\ lint = NoLint /\ wiz = NoWiz
                                      /\ clean_run = NoClean
       \/ LintInit /\ clean_run = NoClean
       \/ WizInit /\ clean_run = NoClean
       \/ CleanInit
    /\ HandlerInit
    /\ spawned = <<>>
    /\ result = NoResult
    /\ captured = NoOutput
    /\ exit_code = -1

Next ==
    \/ WatchCheckDocker
    \/ WatchSetup
    \/ ObserverStart
    \/ InitialBuild
    \/ \E c \in FsChanges : Arrive(c)
    \/ Tick
    \/ Dispatch
    \/ SR_Building
    \/ SR_Filter
    \/ SR_Debounce
    \/ \E t \in Threads : RB_SetBuilding(t)
    \/ \E t \in Threads : RB_ReadTime(t)
    \/ \E t \in Threads : RB_SetTime(t)
    \/ \E t \in Threads : RB_Pre(t)
    \/ \E t \in Threads : RB_Run(t)
    \/ \E t \in Threads : RB_Done(t)
    \/ \E t \in Threads : RB_Finally(t)
    \/ BuildCheckDocker
    \/ BuildClean
    \/ BuildRun
    \/ BuildReport
    \/ LintCheckDocker
    \/ LintFind
    \/ LintChktex
    \/ LintLacheck
    \/ LintSummary
    \/ WizConfirm
    \/ \E i \in 1..Len(Operations) : WizApply(i)
    \/ WizReturn
    \/ CleanFind
    \/ CleanFile
    \/ CleanDir
    \/ CleanSummary

Spec == Init /\ [][Next]_vars

(* ------------------------------- claims ------------------------------- *)

\* The dispatch thread has started a build for the event in hand.
EventBuild == "obs" \in Rebuilding
\* The step that runs line 99 / line 100 of rebuild on thread t.
SetsFlag(t) == pc[t] = "rb_set" /\ pc'[t] = "rb_time"
StartsClock(t) == pc[t] = "rb_store" /\ pc'[t] = "rb_pre"

\* C1: in a watch session no two toolchain invocations started by rebuild
\* run at the same time, whatever the interleaving of the initial build on
\* the main thread with the handlers on the dispatch thread.
C1_NoConcurrentBuilds == Cardinality(Running) <= 1

\* C2: whatever happens inside rebuild once building is True, the flag is
\* released: while the process lives, building is never left True with no
\* thread inside rebuild.
C2_FlagReleased == Live /\ building => \E t \in Threads : pc[t] \in InRebuild

\* C3: an event that arrived while a toolchain invocation was running never
\* starts a build, neither during that build nor after it (stated for the
\* sessions without an initial build, where every build is a handler's).
C3_BusyEventsDropped == ~args.initial_build /\ EventBuild => ~cur.busy

\* C4: of a burst of events that starts when idle and arrives within less
\* than debounce_seconds, only the first starts a build: an event build is
\* never followed by one whose event arrived less than debounce_seconds after
\* the event of the first.
C4_OneBuildPerBurst ==
    EventBuild /\ trig.idle => cur.at - trig.at >= debounce_seconds

\* C5: an event whose path lies under the output directory never starts a
\* build, in whatever form (relative, absolute) the two paths are given.
C5_OutputDirExcluded == EventBuild => ~LiesUnder(cur.src_path, args.output)

\* C6: a handler starts a build only for a file event with a watched suffix,
\* and an event build never starts less than debounce_seconds after the
\* start of the previous build.
C6_DebounceBetweenStarts ==
    /\ [](EventBuild => ~cur.is_directory /\ suffix(cur.src_path) \in watch_extensions)
    /\ [][StartsClock("obs") =>
            last_build_time = 0 \/ now - last_build_time >= debounce_seconds]_vars

\* C7: the initial build, when configured, is subject to the flag: it does
\* not start while building is True; when not configured the main thread
\* starts no build.
C7_InitialBuildRespectsFlag ==
    /\ [](~args.initial_build => "main" \notin Rebuilding)
    /\ [][SetsFlag("main") => ~building]_vars

\* The build command build.py has just run.
BuildSpawned == script = "build" /\ pc["main"] = "b_report"
BuildCommand == spawned[Len(spawned)]
is_override(arg) == arg # <<>> /\ arg[1] = "-pdflatex="
halts_on_error(arg) == \E i \in 1..Len(arg) : arg[i] = "-halt-on-error"
SaysTimedOut(message) ==
    message \in {<<"Build timed out after 10 minutes">>,
                 <<"Build timed out after 5 minutes">>, <<"Build timed out">>}
NonzeroMessages ==
    UNION {{run_docker_build(Completed("nonzero", o)).message,
            run_local_build(Completed("nonzero", o)).message} : o \in ToolOutputs}
NonzeroReports == {rebuild_report(Completed("nonzero", o)) : o \in ToolOutputs}

\* C8: a toolchain invocation that exceeds its timeout raises nothing to the
\* caller; build.py returns a failure whose message says the build timed out
\* and is not a message of a non-zero exit; the watch handler prints that the
\* build timed out, returns normally and leaves building False.
C8_TimeoutReported ==
    /\ [](script = "build" /\ outcome["main"] = "timeout" =>
            /\ pc["main"] \in {"b_report", "b_exit"}
            /\ ~result.success
            /\ SaysTimedOut(result.message)
            /\ result.message \notin NonzeroMessages
            /\ pc["main"] = "b_exit" => exit_code = 1)
    /\ [][\A t \in Threads :
            /\ pc[t] = "rb_wait" /\ outcome'[t] = "timeout" =>
                  /\ Len(console') = 1 /\ SaysTimedOut(console'[1])
                  /\ console' \notin NonzeroReports
            /\ pc[t] = "rb_finally" /\ outcome[t] = "timeout" /\ pc'[t] # pc[t] =>
                  ~building' /\ pc'[t] = Returned(t)]_vars

\* A watch build timed out, was reported, and the handler is idle again.
C8_Witness ==
    /\ script = "watch" /\ console = << <<"Build timed out">> >>
    /\ pc["obs"] = "o_idle" /\ trig.at >= 0 /\ ~building

\* C9: the command build.py runs holds at most one -pdflatex= override, and
\* with --draft and --validate-only together it is the halt-on-error one alone.
C9_OneOverride ==
    BuildSpawned =>
        /\ Len(SelectSeq(BuildCommand, is_override)) <= 1
        /\ args.draft /\ args.validate_only =>
              SelectSeq(BuildCommand, is_override) = <<validate_override>>

\* C10: with --validate-only the command holds the -halt-on-error override,
\* with or without --draft; with --draft alone no argument of the command
\* holds -halt-on-error.  Sandboxed and local, every source and output.
C10_HaltOnError ==
    BuildSpawned =>
        /\ args.validate_only =>
              \E i \in 1..Len(BuildCommand) :
                  is_override(BuildCommand[i]) /\ halts_on_error(BuildCommand[i])
        /\ args.draft /\ ~args.validate_only =>
              \A i \in 1..Len(BuildCommand) : ~halts_on_error(BuildCommand[i])

\* Both flags were given and the override is in the command that ran.
C10_Witness ==
    /\ BuildSpawned /\ args.draft /\ args.validate_only
    /\ \E i \in 1..Len(BuildCommand) : halts_on_error(BuildCommand[i])

\* The mount and working-directory wrapper of a sandboxed command.
DockerWrapper ==
    << <<"docker">>, <<"run">>, <<"--rm">>, <<"-v">>,
       str(cwd) \o <<":/workspace">>, <<"-w">>, <<"/workspace">>,
       <<DOCKER_IMAGE>> >>

\* C11: for the arguments of every run, the sandboxed command is the fixed
\* wrapper followed by exactly the local command, and the command that ran
\* is the one of the two its --local flag selects.
C11_SameSuffix ==
    BuildSpawned =>
        /\ docker_cmd(args.src, args.output, args.draft, args.validate_only)
             = DockerWrapper
               \o local_cmd(args.src, args.output, args.draft, args.validate_only)
        /\ BuildCommand
             = (IF args.local THEN <<>> ELSE DockerWrapper)
               \o local_cmd(args.src, args.output, args.draft, args.validate_only)

\* A sandboxed build with an override ran: wrapper, then the local command.
C11_Witness ==
    /\ BuildSpawned /\ ~args.local /\ args.validate_only /\ args.src.abs
    /\ SubSeq(BuildCommand, 1, Len(DockerWrapper)) = DockerWrapper
    /\ Len(BuildCommand) > Len(DockerWrapper) + 7

\* The arguments of command line cmd, as a set.
Arguments(cmd) == {cmd[i] : i \in 1..Len(cmd)}

\* C12: the command a watch build runs holds every base flag of the Full
\* mode and equals the command build.py runs for the same main file and
\* output directory with draft and validate_only both false.
C12_WatchBuildsFull ==
    script = "watch" /\ spawned # <<>> =>
        /\ { <<"-pdf">>, <<"-shell-escape">>, <<"-interaction=nonstopmode">>,
             <<"-file-line-error">>, <<"-g">>,
             <<"-output-directory=">> \o str(args.output) }
             \subseteq Arguments(BuildCommand)
        /\ BuildCommand
             = IF args.local
               THEN local_cmd(Join(args.src, <<MainTex>>), args.output, FALSE, FALSE)
               ELSE docker_cmd(Join(args.src, <<MainTex>>), args.output, FALSE, FALSE)

\* A diagnostic line: it holds '!' or, in any case, "error".
is_diagnostic(line) ==
    \/ contains(line, <<"!">>)
    \/ contains(lower(line), <<"e", "r", "r", "o", "r">>)
\* The diagnostic lines of the combined output of the build subprocess.
Diagnostics == SelectSeq(split(captured.stdout \o captured.stderr, NL), is_diagnostic)
\* The build subprocess of build.py ended with a non-zero exit.
BuildFailed == script = "build" /\ outcome["main"] = "nonzero"

\* C13: when the output of a failed build has m >= 1 diagnostic lines, the
\* message is exactly the last min(m, 10) of them, in their order, and
\* nothing else.
C13_LastDiagnostics ==
    BuildFailed /\ Diagnostics # <<>> =>
        LET m == Len(Diagnostics)
            k == IF m < 10 THEN m ELSE 10
        IN  split(result.message, NL) = SubSeq(Diagnostics, m - k + 1, m)

\* C14: sandboxed and local, the lines a failed build keeps as diagnostics
\* are exactly the lines of the combined stdout+stderr that hold '!' or, in
\* any case, "error".
C14_SameClassification ==
    BuildFailed =>
        (IF args.local THEN local_error_lines(captured)
                       ELSE docker_error_lines(captured)) = Diagnostics

\* s is the text at the end of t.
IsSuffix(s, t) == Len(s) <= Len(t) /\ SubSeq(t, Len(t) - Len(s) + 1, Len(t)) = s

\* C15: when the output of a failed build has no diagnostic line, the empty
\* output included, the message is not empty and is a tail of the raw
\* combined output, of at most the character budget of the build.
C15_FallbackTail ==
    BuildFailed /\ Diagnostics = <<>> =>
        /\ result.message # <<>>
        /\ IsSuffix(result.message, captured.stdout \o captured.stderr)
        /\ Len(result.message) <= (IF args.local THEN local_tail ELSE docker_tail)

\* C16: build.py always ends through sys.exit with 0 or 1, never by an
\* uncaught exception: 0 exactly when the build subprocess reported success.
C16_ExitsZeroOrOne ==
    script = "build" =>
        /\ pc["main"] # "b_crashed"
        /\ pc["main"] = "b_exit" =>
              /\ exit_code \in {0, 1}
              /\ exit_code = 0 <=> outcome["main"] = "exit0" /\ result.success

\* The run is one that executes its toolchain in the Docker sandbox.
Sandboxed == script = "lint" \/ (script \in {"build", "watch"} /\ ~args.local)

\* C17: a sandboxed run on a machine where the Docker availability check
\* fails never gets past the check: it spawns no toolchain process, starts no
\* observer and no build, and what it exits with is status 1.
C17_NoDockerNoInvocation ==
    Sandboxed /\ ~env.docker_ok =>
        /\ spawned = <<>>
        /\ pc["main"] \in {"m_docker", "m_exit1", "b_docker", "b_exit",
                           "l_docker", "l_exit"}
        /\ pc["main"] \in {"m_exit1", "b_exit", "l_exit"} => exit_code = 1
        /\ ~ObserverStarted /\ queue = <<>>
        /\ Rebuilding = {} /\ Running = {} /\ ~building

\* A watch session without Docker has exited with status 1.
C17_Witness ==
    /\ script = "watch" /\ ~args.local /\ ~env.docker_ok
    /\ pc["main"] = "m_exit1" /\ exit_code = 1 /\ spawned = <<>>

\* The initial build of a watch session, counted once main has entered it.
InitialBuilds ==
    IF args.initial_build /\ pc["main"] \in InRebuild \cup {"rb_set", "m_loop", "m_crashed"}
    THEN 1 ELSE 0
\* The toolchain processes build.py has spawned when its build has run.
BuildSpawns == (IF args.clean THEN 1 ELSE 0) + 1

\* C18: one call spawns one toolchain process and nothing is retried.  In a
\* watch session the processes spawned never outnumber the accepted events
\* plus the initial build, and are as many once every call has returned;
\* build.py has spawned its one build process (after the one of --clean)
\* when the build has run, however it ended.
C18_OneProcessPerCall ==
    /\ script = "watch" =>
          /\ Len(spawned) <= accepted + InitialBuilds
          /\ Rebuilding = {} /\ pc["main"] = "m_loop" /\ pc["obs"] = "o_idle" =>
                Len(spawned) = accepted + InitialBuilds
    /\ script = "build" /\ pc["main"] \in {"b_report", "b_exit"}
          /\ outcome["main"] # "none" => Len(spawned) = BuildSpawns

\* Two builds of a session have run, the last one timed out, and no third
\* process was spawned.
C18_Witness ==
    /\ script = "watch" /\ Len(spawned) = 2 /\ accepted + InitialBuilds = 2
    /\ console = << <<"Build timed out">> >> /\ Rebuilding = {}

\* The step in which should_rebuild returns False for the event in hand.
Rejects ==
    pc["obs"] \in {"sr_building", "sr_filter", "sr_debounce"} /\ pc'["obs"] = "o_idle"
\* The step in which rebuild returns or raises on thread t.
LeavesRebuild(t) == pc[t] \in InRebuild /\ pc'[t] \notin InRebuild

\* C19: no build, however it ends, ends the watch session or its handler:
\* rebuild always returns to its caller, the main loop and the dispatch
\* thread live on, and afterwards an event is rejected only when a build is
\* running, it is not eligible, or debounce_seconds have not passed since the
\* start of the previous build.
C19_FailureKeepsWatching ==
    /\ [](script = "watch" => pc["main"] # "m_crashed" /\ pc["obs"] # "o_dead")
    /\ [][\A t \in Threads : LeavesRebuild(t) => pc'[t] = Returned(t) /\ ~building']_vars
    /\ [][Rejects => \/ building
                     \/ ~PassesFilter(cur)
                     \/ now - last_build_time < debounce_seconds]_vars

\* The operations the answers of the user select.
SelectedOperations == {Operations[i] : i \in {j \in 1..Len(Operations) : Selected(Operations[j])}}

\* C20: once the user has confirmed, the wizard attempts every selected
\* operation, whether or not an earlier one failed, and exits with 0 exactly
\* when none of them failed, else with 1.
C20_AllOperationsAttempted ==
    script = "init" /\ wiz.proceed /\ pc["main"] = "i_exit" =>
        /\ wiz.attempted = SelectedOperations
        /\ {"update_main_tex", "update_packages_tex"} \subseteq wiz.attempted
        /\ exit_code \in {0, 1}
        /\ exit_code = 0 <=> wiz.failed = {}

\* The first operation failed, the last one was attempted all the same, and
\* the wizard exited with 1.
C20_Witness ==
    /\ script = "init" /\ pc["main"] = "i_exit" /\ exit_code = 1
    /\ wiz.failed = {"update_main_tex"}
    /\ wiz.attempted = {Operations[i] : i \in 1..Len(Operations)}

\* A clean run has ended having found something to delete.
CleanDone == script = "clean" /\ pc["main"] = "c_exit" /\ clean_run.report # <<>>
\* The paths main found, and the ones a deletion was attempted or shown for.
Scheduled ==
    {clean_run.files_to_delete[k] : k \in 1..Len(clean_run.files_to_delete)}
    \cup {clean_run.dirs_to_delete[k] : k \in 1..Len(clean_run.dirs_to_delete)}
Reported(how) ==
    {clean_run.report[k][2] : k \in {j \in 1..Len(clean_run.report) :
                                        clean_run.report[j][1] = how}}

\* C21: a clean run without --dry-run attempts the deletion of every file and
\* directory it found, however many, whether or not an earlier deletion
\* failed; when none failed, nothing of what it found exists afterwards.
C21_EveryFoundFileDeleted ==
    CleanDone /\ ~clean_run.dry_run =>
        /\ Scheduled = Reported("Deleted") \cup Reported("Failed")
        /\ Reported("Failed") = {} => Scheduled \cap clean_run.exists = {}

\* C22: a clean run with --dry-run deletes nothing: at every point of the
\* run, with or without --all, the tree is the tree the run started on.
C22_DryRunDeletesNothing ==
    script = "clean" /\ clean_run.dry_run =>
        clean_run.exists = TreePaths(clean_run.tree, clean_run.build_dir)

\* A dry run with --all has shown files and directories and has ended.
C22_Witness ==
    /\ CleanDone /\ clean_run.dry_run /\ clean_run.clean_all
    /\ clean_run.tree = "built"
    /\ Reported("Would delete") = Scheduled
    /\ clean_run.dirs_to_delete # <<>> /\ clean_run.files_to_delete # <<>>

\* C23: in a watch session building is True whenever a toolchain invocation
\* of rebuild is in flight, it is True when an invocation starts, and no
\* step clears it while an invocation is still running.
C23_FlagTracksInvocation ==
    /\ [](script = "watch" /\ Running # {} => building)
    /\ [][\A t \in Threads : pc[t] = "rb_run" /\ pc'[t] = "rb_wait" => building]_vars
    /\ [][building /\ ~building' => Running' = {}]_vars

\* The lines a watch build printed below "Build failed".
ShownLines == Tail(console)
\* The last k diagnostic lines of the captured output, as rebuild indents them.
LastDiagnostics(k) ==
    LET d == last(Diagnostics, k) IN [i \in 1..Len(d) |-> <<"  ">> \o d[i]]

\* C24: what a watch build that failed with a non-zero exit prints are the
\* diagnostic lines of its combined output and no other line: the last k of
\* them, in their order (k the count of rebuild or the one of build.py).
C24_WatchReportsDiagnostics ==
    script = "watch" /\ console # <<>> /\ console[1] = <<"Build failed">> =>
        \E k \in {watch_tail, keep_last} : ShownLines = LastDiagnostics(k)

\* The step in which should_rebuild starts to examine the next event.
Examines == pc["obs"] = "o_idle" /\ pc'["obs"] = "sr_building"

\* C25: builds started by handlers never overlap one another: while an
\* event is examined no event build is in flight, and the next event is
\* examined only when the build of the previous one has returned and has
\* released the flag (only the initial build can hold it then).
C25_EventBuildsInSequence ==
    /\ [](script = "watch" /\ pc["obs"] \in {"sr_building", "sr_filter", "sr_debounce"}
            => inflight["obs"] = -1)
    /\ [][Examines => /\ inflight["obs"] = -1 /\ outcome["obs"] = "none"
                      /\ building => "main" \in Rebuilding]_vars

\* The second event is being examined after the build of the first returned.
C25_Witness ==
    /\ script = "watch" /\ pc["obs"] = "sr_building" /\ accepted = 1
    /\ trig.at >= 0 /\ cur.at >= 0 /\ ~building /\ Len(spawned) >= 1

\* A step of a handler before rebuild: the event is taken from the queue, or
\* should_rebuild runs one of its tests on it.
HandlerStep ==
    \/ pc["obs"] = "o_idle" /\ queue # <<>> /\ queue' = Tail(queue)
    \/ pc["obs"] \in {"sr_building", "sr_filter", "sr_debounce"} /\ pc'["obs"] # pc["obs"]

\* The handler leaves the flag, the clock value and the processes alone
\* until rebuild is entered, and last_build_time is written by line 100 only.
HandlerFrame ==
    /\ [][HandlerStep => UNCHANGED <<building, last_build_time, spawned>>]_vars
    /\ [][last_build_time' # last_build_time => \E t \in Threads : StartsClock(t)]_vars

\* C26: handling a rejected event leaves building and last_build_time
\* unchanged and spawns no process; last_build_time changes only at the
\* start of a build, and it never decreases.
C26_RejectedEventChangesNothing ==
    /\ HandlerFrame
    /\ [][last_build_time' >= last_build_time]_vars

\* The lists of main are made: line 143 is passed.
ListsMade == script = "clean" /\ pc["main"] # "c_find"

NoDuplicates(s) == \A i, j \in 1..Len(s) : s[i] = s[j] => i = j

\* The files a run is to remove, alone or with a directory above them.
DoomedFiles ==
    LET files == clean_run.files_to_delete
        dirs == clean_run.dirs_to_delete
        bd == clean_run.build_dir
        tree == TreePaths(clean_run.tree, bd)
    IN  {files[k] : k \in 1..Len(files)}
        \cup {p \in tree : IsFile(bd, p) /\ \E k \in 1..Len(dirs) : Inside(p, dirs[k])}

\* C27: in one run of clean no path is scheduled twice and no scheduled file
\* lies inside a scheduled directory; the total counts each file once, and
\* no path is reported as failed after the same run has deleted it.
C27_ScheduledOnce ==
    ListsMade =>
        LET files == clean_run.files_to_delete
            dirs == clean_run.dirs_to_delete
        IN  /\ NoDuplicates(files \o dirs)
            /\ \A i \in 1..Len(files), j \in 1..Len(dirs) : ~Inside(files[i], dirs[j])
            /\ clean_run.total_size = Cardinality(DoomedFiles)
            /\ Reported("Failed") \cap Reported("Deleted") = {}

\* The files below a directory whose name ends with a listed extension.
EndsWithAux(p) == \E e \in AUX_EXTENSIONS : IsSuffix(e, Tail(name_of(p)))
AuxFilesBelow(bd, exists, directory) ==
    {p \in exists : Inside(p, directory) /\ IsFile(bd, p) /\ EndsWithAux(p)}
Returned_by(bd, exists, directory) ==
    LET found == find_aux_files(bd, exists, directory)
    IN  {found[k] : k \in 1..Len(found)}

\* C28: find_aux_files returns every regular file under the directory whose
\* name ends with an entry of AUX_EXTENSIONS, the two-dot entries included,
\* and no other file.
C28_FindsEveryAuxFile ==
    script = "clean" =>
        \A directory \in {SrcPath, clean_run.build_dir} \cap clean_run.exists :
            Returned_by(clean_run.build_dir, clean_run.exists, directory)
                = AuxFilesBelow(clean_run.build_dir, clean_run.exists, directory)

=============================================================================
